---- MODULE Spec2Model ----
(***************************************************************************)
(* A model of asi-utils (src/src/infi/asi_utils/__init__.py): one          *)
(* invocation of main, from docopt's arguments to the process outcome.     *)
(* Python strings that the code inspects (isdigit, startswith, int) are    *)
(* sequences of one-character strings, so that the conversions are         *)
(* computed and not assumed.                                               *)
(***************************************************************************)
EXTENDS Integers, Sequences, FiniteSets, TLC

VARIABLES arguments, pc, ActiveOutputContext, command, platform, channel,
          exc, outcome, trace, i, sw, source

vars == <<arguments, pc, ActiveOutputContext, command, platform, channel,
          exc, outcome, trace, i, sw, source>>

(***************************************************************************)
(* Bounds of the model.                                                    *)
(***************************************************************************)
\* the largest number of sub-operations an opaque (pre-built) command issues
MaxSubOps == 2
\* the largest number of bytes the input source of a raw command holds
MaxAvail == 2

(***************************************************************************)
(* Python values.                                                          *)
(***************************************************************************)
None == <<"None">>

Digits == {"0", "1", "2", "3", "4", "5", "6", "7", "8", "9"}

HexDigits == Digits \cup {"a", "b", "c", "d", "e", "f"}

DigitVal(c) ==
    CASE c = "0" -> 0 [] c = "1" -> 1 [] c = "2" -> 2 [] c = "3" -> 3
      [] c = "4" -> 4 [] c = "5" -> 5 [] c = "6" -> 6 [] c = "7" -> 7
      [] c = "8" -> 8 [] c = "9" -> 9 [] c = "a" -> 10 [] c = "b" -> 11
      [] c = "c" -> 12 [] c = "d" -> 13 [] c = "e" -> 14 [] c = "f" -> 15

\* str.startswith(prefix)
startswith(s, p) == Len(s) >= Len(p) /\ SubSeq(s, 1, Len(p)) = p

\* str.isdigit(): non-empty and every character a decimal digit
isdigit(s) == Len(s) > 0 /\ \A k \in 1..Len(s) : s[k] \in Digits

RECURSIVE PosVal(_, _)
\* the value of a digit string in a base
PosVal(s, base) ==
    IF Len(s) = 0 THEN 0
    ELSE PosVal(SubSeq(s, 1, Len(s) - 1), base) * base + DigitVal(s[Len(s)])

Ok(v) == [ok |-> TRUE, val |-> v]
Raise(e) == [ok |-> FALSE, exc |-> e]

\* int(s): base 10; ValueError unless s is a digit string
int10(s) == IF isdigit(s) THEN Ok(PosVal(s, 10)) ELSE Raise("ValueError")

\* int(s, 16): an optional 0x prefix, then at least one hex digit
int16(s) ==
    LET body == IF startswith(s, <<"0", "x">>) THEN SubSeq(s, 3, Len(s)) ELSE s
    IN  IF Len(body) > 0 /\ \A k \in 1..Len(body) : body[k] \in HexDigits
        THEN Ok(PosVal(body, 16))
        ELSE Raise("ValueError")

(***************************************************************************)
(* The inputs of one invocation: docopt's arguments and the environment.   *)
(***************************************************************************)
Families == {"turs", "inq", "luns", "rtpg", "readcap", "raw", "logs", "reset"}

dev_sd == <<"/", "d", "e", "v", "/", "s", "d", "a">>
dev_sg == <<"/", "d", "e", "v", "/", "s", "g", "0">>
dev_dm == <<"/", "d", "e", "v", "/", "d", "m", "-", "0">>
dev_hd == <<"/", "d", "e", "v", "/", "h", "d", "a">>

Devices == {dev_sd, dev_sg, dev_dm, dev_hd}

\* strings get_platform_string returns: the family, then the architecture
Platforms == { <<"w", "i", "n", "d", "o", "w", "s", "-", "x">>,
               <<"l", "i", "n", "u", "x", "-", "x">>,
               <<"s", "o", "l", "a", "r", "i", "s", "-", "x">>,
               <<"a", "i", "x", "-", "x">>,
               <<"o", "s", "x", "-", "x">> }

stdin == <<"<stdin>">>

\* values of --request and --send: absent, empty, decimal, hexadecimal, malformed
RequestSpecs == {None, <<>>, <<"2">>, <<"0", "x", "1", "0">>, <<"z">>}
SendSpecs == {None, <<>>, <<"0">>, <<"2">>, <<"0", "x", "1">>, <<"0", "x">>}

\* values of --page
PageSpecs == {None, <<"0">>, <<"0", "x", "8", "3">>, <<"9">>, <<"p">>}

\* values of --number (docopt's default is "1") and of --select (default "0")
NumberSpecs == {<<"1">>, <<"2">>, <<"0">>, <<"n">>}
SelectSpecs == {<<"0">>, <<"2">>, <<"s">>}

\* the VPD pages get_vpd_page knows
SupportedVpdPages == {0, 131}

\* the outcomes of one channel call
CallOutcomes == {"ok", "AsiCheckConditionError", "AsiSCSIError", "AsiOSError"}

\* the bytes an input source holding n bytes yields
Bytes(n) == [k \in 1..n |-> k]

Min(a, b) == IF a < b THEN a ELSE b

(***************************************************************************)
(* OutputContext and set_formatters.                                       *)
(***************************************************************************)
\* OutputContext.__init__
OutputContext_init ==
    [verbose |-> FALSE, command_formatter |-> "Default", result_formatter |-> "Default"]

\* OutputContext.enable_verbose
enable_verbose(ctx) == [ctx EXCEPT !.verbose = TRUE]

\* OutputContext.set_result_formatter
set_result_formatter(ctx, f) == [ctx EXCEPT !.result_formatter = f]

\* OutputContext.set_formatters: both roles
set_both_formatters(ctx, f) ==
    [ctx EXCEPT !.command_formatter = f, !.result_formatter = f]

\* a plausible slip: the override chain tests --raw before --hex
set_formatters_raw_first(ctx, args) ==
    LET c1 == IF args.family = "readcap" THEN set_result_formatter(ctx, "Readcap")
              ELSE IF args.family = "luns" THEN set_result_formatter(ctx, "Luns")
              ELSE IF args.family = "rtpg" THEN set_result_formatter(ctx, "Rtpg")
              ELSE ctx
    IN  IF args.raw THEN set_both_formatters(c1, "Raw")
        ELSE IF args.hex THEN set_both_formatters(c1, "Hex")
        ELSE IF args.json THEN set_both_formatters(c1, "Json")
        ELSE c1

\* set_formatters(arguments)
set_formatters(ctx, args) ==
    LET c1 == IF args.family = "readcap" THEN set_result_formatter(ctx, "Readcap")
              ELSE IF args.family = "luns" THEN set_result_formatter(ctx, "Luns")
              ELSE IF args.family = "rtpg" THEN set_result_formatter(ctx, "Rtpg")
              ELSE ctx
    IN  IF args.hex THEN set_both_formatters(c1, "Hex")
        ELSE IF args.raw THEN set_both_formatters(c1, "Raw")
        ELSE IF args.json THEN set_both_formatters(c1, "Json")
        ELSE c1

(***************************************************************************)
(* The length grammar of build_raw_command, and the page grammar.          *)
(***************************************************************************)
\* a plausible slip: an empty specification is taken as absent
resolve_length_empty_zero(L) ==
    IF L = None \/ L = <<>> THEN Ok(0)
    ELSE IF isdigit(L) THEN int10(L)
    ELSE IF startswith(L, <<"0", "x">>) THEN int16(L)
    ELSE Raise("ValueError")

\* the if/elif chain applied to request_length and then to send_length
resolve_length(L) ==
    IF L = None THEN Ok(0)
    ELSE IF isdigit(L) THEN int10(L)
    ELSE IF startswith(L, <<"0", "x">>) THEN int16(L)
    ELSE Raise("ValueError")

\* inq's choice of the command: the standard inquiry, or the VPD page's command;
\* get_vpd_page(n)() is None for a page it does not know
inq_command(page) ==
    LET n == IF page = None THEN Ok(0)
             ELSE IF isdigit(page) THEN int10(page)
             ELSE IF startswith(page, <<"0", "x">>) THEN int16(page)
             ELSE Raise("ValueError")
    IN  IF ~n.ok THEN n
        ELSE IF page # None /\ n.val \notin SupportedVpdPages THEN Raise("ValueError")
        ELSE n

\* the page number of logs
logs_page(page) ==
    IF page = None THEN Ok(0)
    ELSE IF isdigit(page) THEN int10(page)
    ELSE IF startswith(page, <<"0", "x">>) THEN int16(page)
    ELSE Raise("ValueError")

(***************************************************************************)
(* asi_context: the choice of the transport.                               *)
(***************************************************************************)
\* infi.sgutils.sg_map.get_sg_from_sd: the generic-SCSI device of a /dev/sd path
get_sg_from_sd(device) == dev_sg

\* a plausible slip: every path that is not /dev/sg is translated first
select_executer_translate_all(plat, device) ==
    IF startswith(plat, <<"w", "i", "n", "d", "o", "w", "s">>)
    THEN [ok |-> TRUE, func |-> "windows", device |-> device, translated |-> FALSE]
    ELSE IF startswith(plat, <<"l", "i", "n", "u", "x">>)
    THEN LET tr == ~startswith(device, <<"/", "d", "e", "v", "/", "s", "g">>)
             d  == IF tr THEN get_sg_from_sd(device) ELSE device
         IN  [ok |-> TRUE,
              func |-> IF startswith(d, <<"/", "d", "e", "v", "/", "s", "g">>)
                       THEN "linux_sg" ELSE "linux_dm",
              device |-> d, translated |-> tr]
    ELSE IF startswith(plat, <<"s", "o", "l", "a", "r", "i", "s">>)
    THEN [ok |-> TRUE, func |-> "solaris", device |-> device, translated |-> FALSE]
    ELSE IF startswith(plat, <<"a", "i", "x">>)
    THEN [ok |-> TRUE, func |-> "aix", device |-> device, translated |-> FALSE]
    ELSE Raise("NotImplementedError")

\* the platform and device-path dispatch of asi_context
select_executer(plat, device) ==
    IF startswith(plat, <<"w", "i", "n", "d", "o", "w", "s">>)
    THEN [ok |-> TRUE, func |-> "windows", device |-> device, translated |-> FALSE]
    ELSE IF startswith(plat, <<"l", "i", "n", "u", "x">>)
    THEN LET tr == startswith(device, <<"/", "d", "e", "v", "/", "s", "d">>)
             d  == IF tr THEN get_sg_from_sd(device) ELSE device
         IN  [ok |-> TRUE,
              func |-> IF startswith(d, <<"/", "d", "e", "v", "/", "s", "g">>)
                       THEN "linux_sg" ELSE "linux_dm",
              device |-> d, translated |-> tr]
    ELSE IF startswith(plat, <<"s", "o", "l", "a", "r", "i", "s">>)
    THEN [ok |-> TRUE, func |-> "solaris", device |-> device, translated |-> FALSE]
    ELSE IF startswith(plat, <<"a", "i", "x">>)
    THEN [ok |-> TRUE, func |-> "aix", device |-> device, translated |-> FALSE]
    ELSE Raise("NotImplementedError")

(***************************************************************************)
(* The raw command.                                                        *)
(***************************************************************************)
NoCommand ==
    [kind |-> "none", request_length |-> 0, send_length |-> 0, data |-> <<>>, nsub |-> 0]

\* a pre-built command of infi.asi.cdb: it issues nsub channel calls
OpaqueCommand(nsub) ==
    [kind |-> "opaque", request_length |-> 0, send_length |-> 0, data |-> <<>>,
     nsub |-> nsub]

\* the CDB object build_raw_command returns, with the values its closure holds
RawCommand(rlen, slen, data) ==
    [kind |-> "raw", request_length |-> rlen, send_length |-> slen, data |-> data,
     nsub |-> 1]

NoCall == [kind |-> "none", len |-> 0, data |-> <<>>]

\* a plausible slip: the direction is decided by the request length
CDB_execute_by_request(cmd) ==
    IF cmd.request_length = 0
    THEN [kind |-> "write", len |-> 0, data |-> cmd.data]
    ELSE [kind |-> "read", len |-> cmd.request_length, data |-> <<>>]

\* CDB.execute: the one channel call of a raw command
CDB_execute(cmd) ==
    IF cmd.send_length # 0
    THEN [kind |-> "write", len |-> 0, data |-> cmd.data]
    ELSE [kind |-> "read", len |-> cmd.request_length, data |-> <<>>]

\* the call a command issues: a raw command's, or an opaque command's own
command_call(cmd) ==
    IF cmd.kind = "raw" THEN CDB_execute(cmd)
    ELSE [kind |-> "opaque", len |-> 0, data |-> <<>>]

(***************************************************************************)
(* The events of an invocation, in order.                                  *)
(***************************************************************************)
\* n: the ordinal of the sync_wait call the event belongs to, 0 outside sync_wait;
\* fmt: the formatter of a printed text, the outcome of a channel call
Event(n, ev, fmt, call) == [n |-> n, ev |-> ev, fmt |-> fmt, call |-> call]

Log(ev) == trace' = Append(trace, Event(0, ev, "", NoCall))

Positions(ev) == {k \in 1..Len(trace) : trace[k].ev = ev}
Count(ev) == Cardinality(Positions(ev))

NoChannel == [state |-> "none", func |-> "", device |-> <<>>, translated |-> FALSE]

NoSyncWait == [n |-> 0, calls |-> 0, supress |-> FALSE]

(***************************************************************************)
(* The arguments docopt hands to main.                                     *)
(***************************************************************************)
\* the options every family reads; the others at docopt's defaults
BaseArguments(f) ==
    { [family |-> f, device |-> d, hex |-> h, raw |-> r, json |-> j, verbose |-> v,
       number |-> <<"1">>, page |-> None, select |-> <<"0">>, request |-> None,
       send |-> None, outfile |-> None, infile |-> stdin] :
        d \in Devices, h \in BOOLEAN, r \in BOOLEAN, j \in BOOLEAN, v \in BOOLEAN }

\* an option a family does not read keeps docopt's default
ArgumentSets ==
    { [a EXCEPT !.number = nu] : a \in BaseArguments("turs"), nu \in NumberSpecs }
    \cup { [a EXCEPT !.page = pg] :
             a \in BaseArguments("inq") \cup BaseArguments("logs"), pg \in PageSpecs }
    \cup { [a EXCEPT !.select = se] : a \in BaseArguments("luns"), se \in SelectSpecs }
    \cup BaseArguments("rtpg") \cup BaseArguments("readcap") \cup BaseArguments("reset")
    \cup { [a EXCEPT !.request = rq, !.send = sn, !.outfile = ou, !.infile = inf] :
             a \in BaseArguments("raw"), rq \in RequestSpecs, sn \in SendSpecs,
             ou \in {None, <<"o">>}, inf \in {stdin, <<"i">>} }

Init ==
    /\ arguments \in ArgumentSets
    /\ pc = "main"
    /\ ActiveOutputContext = OutputContext_init
    /\ command = NoCommand
    /\ platform = <<>>
    /\ channel = NoChannel
    /\ exc = "none"
    /\ outcome = "running"
    /\ trace = <<>>
    /\ i = 0
    /\ sw = NoSyncWait
    /\ source = [read |-> FALSE, avail |-> 0]

(***************************************************************************)
(* main, up to the dispatch.                                               *)
(***************************************************************************)
\* an exception leaves the function it is raised in; outside every with block
\* it reaches the wrapper of exception_handler
RaiseToHandler(e) == /\ exc' = e
                     /\ pc' = "handler"

\* inside the with block of a family it first leaves the block
RaiseInScope(e) == /\ exc' = e
                   /\ pc' = "exit_ctx"

\* main: enable_verbose and set_formatters
MainSetup ==
    /\ pc = "main"
    /\ ActiveOutputContext' =
         set_formatters(IF arguments.verbose THEN enable_verbose(ActiveOutputContext)
                        ELSE ActiveOutputContext, arguments)
    /\ pc' = "dispatch"
    /\ UNCHANGED <<arguments, command, platform, channel, exc, outcome, trace, i, sw,
                   source>>

\* turs: the with block is entered before int(number) is evaluated
Turs ==
    /\ pc = "dispatch"
    /\ arguments.family = "turs"
    /\ pc' = "asi_context"
    /\ UNCHANGED <<arguments, ActiveOutputContext, command, platform, channel, exc,
                   outcome, trace, i, sw, source>>

\* the command of a family is built before the with block
Built(r, nsub) ==
    /\ IF r.ok THEN /\ command' = OpaqueCommand(nsub)
                    /\ pc' = "asi_context"
                    /\ exc' = exc
       ELSE /\ command' = command
            /\ RaiseToHandler(r.exc)
    /\ UNCHANGED <<arguments, ActiveOutputContext, platform, channel, outcome, trace,
                   i, sw, source>>

\* inq
Inq ==
    /\ pc = "dispatch"
    /\ arguments.family = "inq"
    /\ \E nsub \in 1..MaxSubOps : Built(inq_command(arguments.page), nsub)

\* luns
Luns ==
    /\ pc = "dispatch"
    /\ arguments.family = "luns"
    /\ \E nsub \in 1..MaxSubOps : Built(int10(arguments.select), nsub)

\* rtpg
Rtpg ==
    /\ pc = "dispatch"
    /\ arguments.family = "rtpg"
    /\ \E nsub \in 1..MaxSubOps : Built(Ok(0), nsub)

\* readcap
Readcap ==
    /\ pc = "dispatch"
    /\ arguments.family = "readcap"
    /\ \E nsub \in 1..MaxSubOps : Built(Ok(0), nsub)

\* logs
Logs ==
    /\ pc = "dispatch"
    /\ arguments.family = "logs"
    /\ \E nsub \in 1..MaxSubOps : Built(logs_page(arguments.page), nsub)

\* reset: task management through sg_reset, on linux only
Reset ==
    /\ pc = "dispatch"
    /\ arguments.family = "reset"
    /\ \E plat \in Platforms :
         /\ platform' = plat
         /\ IF startswith(plat, <<"l", "i", "n", "u", "x">>)
            THEN /\ pc' = "handler"
                 /\ exc' = exc
            ELSE RaiseToHandler("NotImplementedError")
    /\ UNCHANGED <<arguments, ActiveOutputContext, command, channel, outcome, trace, i,
                   sw, source>>

\* build_raw_command, called by raw before its with block: the two lengths, then
\* the payload read from the input source, then the assertion on its length; a
\* named input file may fail to open
BuildRawCommand ==
    /\ pc = "dispatch"
    /\ arguments.family = "raw"
    /\ LET rl == resolve_length(arguments.request)
           sl == resolve_length(arguments.send)
       IN  IF ~rl.ok
           THEN /\ RaiseToHandler(rl.exc)
                /\ UNCHANGED <<command, source>>
           ELSE IF ~sl.ok
           THEN /\ RaiseToHandler(sl.exc)
                /\ UNCHANGED <<command, source>>
           ELSE IF sl.val = 0
           THEN /\ command' = RawCommand(rl.val, 0, <<>>)
                /\ pc' = "asi_context"
                /\ UNCHANGED <<exc, source>>
           ELSE \/ \E avail \in 0..MaxAvail :
                     LET data == Bytes(Min(avail, sl.val))
                     IN  /\ source' = [read |-> TRUE, avail |-> avail]
                         /\ IF Len(data) # sl.val
                            THEN /\ RaiseToHandler("AssertionError")
                                 /\ command' = command
                            ELSE /\ command' = RawCommand(rl.val, sl.val, data)
                                 /\ pc' = "asi_context"
                                 /\ exc' = exc
                \/ /\ arguments.infile # stdin
                   /\ RaiseToHandler("IOError")
                   /\ UNCHANGED <<command, source>>
    /\ UNCHANGED <<arguments, ActiveOutputContext, platform, channel, outcome, trace,
                   i, sw>>

(***************************************************************************)
(* asi_context: the scope of the channel.                                  *)
(***************************************************************************)
\* entering an executer of the executers module opens the device
executer_enter(sel) ==
    [state |-> "open", func |-> sel.func, device |-> sel.device,
     translated |-> sel.translated]

\* leaving it closes the device
executer_exit(ch) == [ch EXCEPT !.state = "closed"]

\* asi_context up to its yield: the executer is chosen and entered; entering
\* may fail with an OS-level error, and then nothing is open
AsiContextEnter ==
    /\ pc = "asi_context"
    /\ \E plat \in Platforms :
         /\ platform' = plat
         /\ LET sel == select_executer(plat, arguments.device)
            IN  IF ~sel.ok
                THEN /\ RaiseToHandler(sel.exc)
                     /\ UNCHANGED <<channel, trace>>
                ELSE \/ /\ channel' = executer_enter(sel)
                        /\ Log("open")
                        /\ pc' = "body"
                        /\ exc' = exc
                     \/ /\ RaiseToHandler("AsiOSError")
                        /\ UNCHANGED <<channel, trace>>
    /\ UNCHANGED <<arguments, ActiveOutputContext, command, outcome, i, sw, source>>

\* a plausible slip: no with statement around the yield, so that an exception
\* thrown into the generator leaves the executer entered
AsiContextExit_on_success_only ==
    /\ pc = "exit_ctx"
    /\ IF exc = "none"
       THEN /\ channel' = executer_exit(channel)
            /\ Log("close")
       ELSE UNCHANGED <<channel, trace>>
    /\ pc' = "handler"
    /\ UNCHANGED <<arguments, ActiveOutputContext, command, platform, exc, outcome, i,
                   sw, source>>

\* asi_context after its yield: the with statement leaves the executer, whether
\* the block ended or raised, and a raised exception goes on to the caller
AsiContextExit ==
    /\ pc = "exit_ctx"
    /\ channel' = executer_exit(channel)
    /\ Log("close")
    /\ pc' = "handler"
    /\ UNCHANGED <<arguments, ActiveOutputContext, command, platform, exc, outcome, i,
                   sw, source>>

(***************************************************************************)
(* The with blocks of the families.                                        *)
(***************************************************************************)
\* the call of sync_wait(asi, command, supresss_output)
CallSyncWait(supress) ==
    /\ sw' = [n |-> sw.n + 1, calls |-> 0, supress |-> supress]
    /\ pc' = "sw_echo"

\* turs: for i in xrange(int(number)), a new TestUnitReadyCommand each time
TursLoop ==
    /\ pc = "body"
    /\ arguments.family = "turs"
    /\ LET n == int10(arguments.number)
       IN  IF ~n.ok
           THEN /\ RaiseInScope(n.exc)
                /\ UNCHANGED <<command, sw>>
           ELSE IF i < n.val
           THEN /\ \E nsub \in 1..MaxSubOps : command' = OpaqueCommand(nsub)
                /\ CallSyncWait(FALSE)
                /\ exc' = exc
           ELSE /\ pc' = "exit_ctx"
                /\ UNCHANGED <<command, sw, exc>>
    /\ UNCHANGED <<arguments, ActiveOutputContext, platform, channel, outcome, trace,
                   i, source>>

\* turs: the end of one iteration
TursNext ==
    /\ pc = "sw_return"
    /\ arguments.family = "turs"
    /\ i' = i + 1
    /\ pc' = "body"
    /\ UNCHANGED <<arguments, ActiveOutputContext, command, platform, channel, exc,
                   outcome, trace, sw, source>>

\* inq, luns, rtpg, readcap, logs: sync_wait(asi, command)
CommandBody ==
    /\ pc = "body"
    /\ arguments.family \in {"inq", "luns", "rtpg", "readcap", "logs"}
    /\ CallSyncWait(FALSE)
    /\ UNCHANGED <<arguments, ActiveOutputContext, command, platform, channel, exc,
                   outcome, trace, i, source>>

\* inq, luns, rtpg, readcap, logs: the block ends when sync_wait returns
CommandReturn ==
    /\ pc = "sw_return"
    /\ arguments.family \in {"inq", "luns", "rtpg", "readcap", "logs"}
    /\ pc' = "exit_ctx"
    /\ UNCHANGED <<arguments, ActiveOutputContext, command, platform, channel, exc,
                   outcome, trace, i, sw, source>>

\* raw: sync_wait(asi, command, supresss_output=True)
RawBody ==
    /\ pc = "body"
    /\ arguments.family = "raw"
    /\ CallSyncWait(TRUE)
    /\ UNCHANGED <<arguments, ActiveOutputContext, command, platform, channel, exc,
                   outcome, trace, i, source>>

\* raw: the result is written to the output file when one is named; the file
\* may fail to open
RawOutfile ==
    /\ pc = "sw_return"
    /\ arguments.family = "raw"
    /\ IF arguments.outfile = None
       THEN /\ pc' = "exit_ctx"
            /\ UNCHANGED <<trace, exc>>
       ELSE \/ /\ Log("outfile")
               /\ pc' = "exit_ctx"
               /\ exc' = exc
            \/ /\ RaiseInScope("IOError")
               /\ trace' = trace
    /\ UNCHANGED <<arguments, ActiveOutputContext, command, platform, channel, outcome,
                   i, sw, source>>

(***************************************************************************)
(* sync_wait.                                                              *)
(***************************************************************************)
\* a plausible slip: the command is echoed whatever the verbosity
output_command_always(ctx) == <<Event(0, "echo", ctx.command_formatter, NoCall)>>

\* OutputContext.output_command: what it prints
output_command(ctx) ==
    IF ~ctx.verbose THEN <<>> ELSE <<Event(0, "echo", ctx.command_formatter, NoCall)>>

\* OutputContext.output_result: what it prints
output_result(ctx) == <<Event(0, "result", ctx.result_formatter, NoCall)>>

\* OutputContext.output_error: what it prints, on the file it is given
output_error(ctx) == <<Event(0, "stderr", "Error", NoCall)>>

\* the events of a sync_wait call carry its ordinal
InSyncWait(events) == [k \in 1..Len(events) |-> [events[k] EXCEPT !.n = sw.n]]

\* sync_wait: ActiveOutputContext.output_command(command)
SyncWaitEcho ==
    /\ pc = "sw_echo"
    /\ trace' = trace \o InSyncWait(output_command(ActiveOutputContext))
    /\ pc' = "sw_exec"
    /\ UNCHANGED <<arguments, ActiveOutputContext, command, platform, channel, exc,
                   outcome, i, sw, source>>

\* sync_wait: _sync_wait(command.execute(asi)), one channel call at a time; a
\* call that raises ends the execution and the error leaves sync_wait
SyncWaitCall ==
    /\ pc = "sw_exec"
    /\ sw.calls < command.nsub
    /\ \E o \in CallOutcomes :
         /\ trace' = Append(trace, Event(sw.n, "call", o, command_call(command)))
         /\ IF o = "ok"
            THEN /\ sw' = [sw EXCEPT !.calls = sw.calls + 1]
                 /\ pc' = IF sw.calls + 1 = command.nsub THEN "sw_result" ELSE "sw_exec"
                 /\ exc' = exc
            ELSE /\ RaiseInScope(o)
                 /\ sw' = sw
    /\ UNCHANGED <<arguments, ActiveOutputContext, command, platform, channel, outcome,
                   i, source>>

\* sync_wait: the result is printed unless supresss_output, and returned
SyncWaitResult ==
    /\ pc = "sw_result"
    /\ trace' = IF sw.supress THEN trace
                ELSE trace \o InSyncWait(output_result(ActiveOutputContext))
    /\ pc' = "sw_return"
    /\ UNCHANGED <<arguments, ActiveOutputContext, command, platform, channel, exc,
                   outcome, i, sw, source>>

(***************************************************************************)
(* exception_handler, the wrapper of main.                                 *)
(***************************************************************************)
\* what the wrapper does with the exception main ends with
handle(e) ==
    IF e = "none" THEN [outcome |-> "return", printed |-> <<>>]
    ELSE IF e = "AsiCheckConditionError"
    THEN [outcome |-> "return", printed |-> output_error(ActiveOutputContext)]
    ELSE IF e \in {"ValueError", "NotImplementedError"}
    THEN [outcome |-> "exit1", printed |-> <<Event(0, "stderr", "str", NoCall)>>]
    ELSE IF e \in {"AsiOSError", "AsiSCSIError"}
    THEN [outcome |-> "exit1", printed |-> <<Event(0, "stderr", "str", NoCall)>>]
    ELSE [outcome |-> "uncaught", printed |-> <<>>]

ExceptionHandler ==
    /\ pc = "handler"
    /\ outcome' = handle(exc).outcome
    /\ trace' = trace \o handle(exc).printed
    /\ pc' = "done"
    /\ UNCHANGED <<arguments, ActiveOutputContext, command, platform, channel, exc, i,
                   sw, source>>

Next ==
    \/ MainSetup
    \/ Turs
    \/ Inq
    \/ Luns
    \/ Rtpg
    \/ Readcap
    \/ BuildRawCommand
    \/ Logs
    \/ Reset
    \/ AsiContextEnter
    \/ TursLoop
    \/ TursNext
    \/ CommandBody
    \/ CommandReturn
    \/ RawBody
    \/ RawOutfile
    \/ SyncWaitEcho
    \/ SyncWaitCall
    \/ SyncWaitResult
    \/ AsiContextExit
    \/ ExceptionHandler

Spec == Init /\ [][Next]_vars

(***************************************************************************)
(* Vocabulary of the properties.                                           *)
(***************************************************************************)
Finished == pc = "done"

\* main has left every with block
OutOfScope == pc \in {"handler", "done"}

\* the positions of the events of the m-th sync_wait call
Segment(m, ev) == {k \in 1..Len(trace) : trace[k].n = m /\ trace[k].ev = ev}

\* build_raw_command has run
RawBuilt == arguments.family = "raw" /\ pc \notin {"main", "dispatch"}

\* the value of a string of decimal digits, and of hexadecimal digits after 0x
IsDecimal(L) == L # None /\ Len(L) > 0 /\ \A k \in 1..Len(L) : L[k] \in Digits
IsHexPrefixed(L) == L # None /\ Len(L) >= 2 /\ L[1] = "0" /\ L[2] = "x"

\* what --request and --send must have led to, given a reading of each
BuildFollows(rq, sn) ==
    IF ~rq.ok \/ ~sn.ok
    THEN command.kind = "none" /\ exc = "ValueError"
    ELSE /\ exc # "ValueError"
         /\ command.kind = "raw" => /\ command.request_length = rq.val
                                    /\ command.send_length = sn.val

(***************************************************************************)
(* C1: a channel opened by asi_context is closed when the scope of the     *)
(* invocation ends, whatever the outcome: at most one channel is opened,   *)
(* it is closed exactly once, and none is open once main has left the      *)
(* with block.                                                             *)
(***************************************************************************)
C1_ChannelClosed ==
    /\ Count("open") <= 1
    /\ Count("close") <= Count("open")
    /\ channel.state = "open" <=> (Count("open") = 1 /\ Count("close") = 0)
    /\ OutOfScope => /\ channel.state # "open"
                     /\ Count("close") = Count("open")

\* an invocation whose channel call raised a protocol error, ended
C1_Witness ==
    /\ Finished
    /\ exc = "AsiSCSIError"
    /\ Count("open") = 1
    /\ channel.state = "closed"

(***************************************************************************)
(* C2, as stated: a length is 0 when absent or empty, int(L,10) when all   *)
(* decimal, int(L,16) when 0x-prefixed, a FormatError otherwise; request   *)
(* and send length each by this rule.                                      *)
(***************************************************************************)
ResolveAsStated(L) ==
    IF L = None \/ L = <<>> THEN Ok(0)
    ELSE IF IsDecimal(L) THEN int10(L)
    ELSE IF IsHexPrefixed(L) THEN int16(L)
    ELSE Raise("ValueError")

\* C2 as stated: both lengths follow the rule in which absent and empty give 0
C2_AsStated ==
    RawBuilt => BuildFollows(ResolveAsStated(arguments.request),
                             ResolveAsStated(arguments.send))

(***************************************************************************)
(* C2, amended: a length is 0 when absent (None), int(L,10) when all       *)
(* decimal, int(L,16) when 0x-prefixed, and a FormatError otherwise, the   *)
(* empty string included; request and send length each by this rule.       *)
(***************************************************************************)
ResolveAmended(L) ==
    IF L = None THEN Ok(0)
    ELSE IF IsDecimal(L) THEN int10(L)
    ELSE IF IsHexPrefixed(L) THEN int16(L)
    ELSE Raise("ValueError")

\* C2 amended: both lengths follow the rule in which only absent gives 0
C2_Resolve ==
    RawBuilt => BuildFollows(ResolveAmended(arguments.request),
                             ResolveAmended(arguments.send))

\* --request=0x10 --send=2 built: 16 and 2
C2_Witness ==
    /\ RawBuilt
    /\ arguments.request = <<"0", "x", "1", "0">>
    /\ arguments.send = <<"2">>
    /\ command.kind = "raw"
    /\ command.request_length = 16
    /\ command.send_length = 2

(***************************************************************************)
(* C3: when the input source yields fewer bytes than the resolved send     *)
(* length, the build fails, the failure is reported like the other fatal   *)
(* errors (a message on standard error, exit code 1), no channel is opened,*)
(* no channel call is issued, and no command holds a shortened payload.    *)
(***************************************************************************)
ShortRead == source.read /\ source.avail < resolve_length(arguments.send).val

\* C3: a short read ends in exit code 1 with a message, nothing opened or sent
C3_IncompleteInput ==
    ShortRead =>
        /\ command.kind = "none"
        /\ Count("open") = 0
        /\ Count("call") = 0
        /\ Finished => /\ outcome = "exit1"
                       /\ Count("stderr") = 1

(***************************************************************************)
(* C4: a raw command issues exactly one channel call per execution: a      *)
(* write carrying the payload when the resolved send length is > 0, and    *)
(* otherwise a read whose length is the resolved request length (0 when    *)
(* --request is absent); the call is never repeated.                       *)
(***************************************************************************)
C4_OneCall ==
    arguments.family = "raw" =>
        /\ Count("call") <= 1
        /\ pc \in {"sw_result", "sw_return"} => Count("call") = 1
        /\ \A k \in Positions("call") :
             IF command.send_length > 0
             THEN /\ trace[k].call.kind = "write"
                  /\ trace[k].call.data = command.data
             ELSE /\ trace[k].call.kind = "read"
                  /\ trace[k].call.len = command.request_length
                  /\ arguments.request = None => trace[k].call.len = 0

\* --request=0x10 --send=2: one write of two bytes, and the invocation ended
C4_Witness ==
    /\ Finished
    /\ arguments.family = "raw"
    /\ arguments.request = <<"0", "x", "1", "0">>
    /\ \E k \in Positions("call") : /\ trace[k].call.kind = "write"
                                    /\ Len(trace[k].call.data) = 2

(***************************************************************************)
(* C5: after set_formatters both formatters are hex under --hex, else raw  *)
(* under --raw, else json under --json; with none of the three the command *)
(* formatter is the default one and the result formatter is the dedicated  *)
(* one of readcap, luns or rtpg, and the default one of any other family.  *)
(***************************************************************************)
DedicatedFormatter(family) ==
    CASE family = "readcap" -> "Readcap"
      [] family = "luns" -> "Luns"
      [] family = "rtpg" -> "Rtpg"
      [] OTHER -> "Default"

\* C5: the formatters after set_formatters, by precedence hex > raw > json
C5_Formatters ==
    pc # "main" =>
        LET c == ActiveOutputContext.command_formatter
            r == ActiveOutputContext.result_formatter
        IN  /\ arguments.hex => c = "Hex" /\ r = "Hex"
            /\ ~arguments.hex /\ arguments.raw => c = "Raw" /\ r = "Raw"
            /\ ~arguments.hex /\ ~arguments.raw /\ arguments.json =>
                   c = "Json" /\ r = "Json"
            /\ ~arguments.hex /\ ~arguments.raw /\ ~arguments.json =>
                   c = "Default" /\ r = DedicatedFormatter(arguments.family)

\* --hex --raw --json together on readcap
C5_Witness ==
    /\ pc = "dispatch"
    /\ arguments.family = "readcap"
    /\ arguments.hex /\ arguments.raw /\ arguments.json
    /\ ActiveOutputContext.result_formatter = "Hex"

(***************************************************************************)
(* C6: a successful raw invocation delivers the result to exactly one      *)
(* place: the output file when --outfile is set, and otherwise standard    *)
(* output, through the active result formatter.                            *)
(***************************************************************************)
C6_ResultDelivered ==
    (Finished /\ arguments.family = "raw" /\ exc = "none") =>
        IF arguments.outfile # None
        THEN Count("outfile") = 1 /\ Count("result") = 0
        ELSE /\ Count("outfile") = 0
             /\ Count("result") = 1
             /\ \A k \in Positions("result") :
                  trace[k].fmt = ActiveOutputContext.result_formatter

(***************************************************************************)
(* C7: every invocation of main ends with exit code 0 on success, with     *)
(* exit code 1 and the error on standard error on a format, platform,      *)
(* OS-level or protocol-level error, or with the sense data of a CHECK     *)
(* CONDITION on standard error through the error formatter; no error       *)
(* leaves the wrapper of main unhandled.                                   *)
(***************************************************************************)
C7_Outcomes ==
    Finished =>
        \/ exc = "none" /\ outcome = "return" /\ Count("stderr") = 0
        \/ /\ exc = "AsiCheckConditionError"
           /\ outcome = "return"
           /\ Count("stderr") = 1
           /\ trace[Len(trace)].fmt = "Error"
        \/ /\ exc \notin {"none", "AsiCheckConditionError"}
           /\ outcome = "exit1"
           /\ Count("stderr") = 1

(***************************************************************************)
(* C8, as stated: windows, solaris and aix use their own transport for any *)
(* path; on linux a /dev/sg path uses the generic transport directly, a    *)
(* device-mapper path the device-mapper transport, and any other path is   *)
(* translated by the lookup and opened with the generic transport; any     *)
(* other platform fails with NotImplementedError and nothing is opened.    *)
(***************************************************************************)
\* asi_context has chosen
Resolved == arguments.family # "reset" /\ platform # <<>>

Opened == channel.state # "none"

OnPlatform(name) == Len(platform) >= Len(name) /\ SubSeq(platform, 1, Len(name)) = name

DeviceIs(prefix) ==
    /\ Len(arguments.device) >= Len(prefix)
    /\ SubSeq(arguments.device, 1, Len(prefix)) = prefix

Linux == OnPlatform(<<"l", "i", "n", "u", "x">>)

\* what holds of the three single-transport platforms and of the others
OtherPlatforms ==
    /\ OnPlatform(<<"w", "i", "n", "d", "o", "w", "s">>) /\ Opened =>
           channel.func = "windows" /\ channel.device = arguments.device
    /\ OnPlatform(<<"s", "o", "l", "a", "r", "i", "s">>) /\ Opened =>
           channel.func = "solaris" /\ channel.device = arguments.device
    /\ OnPlatform(<<"a", "i", "x">>) /\ Opened =>
           channel.func = "aix" /\ channel.device = arguments.device
    /\ (~Opened /\ exc = "NotImplementedError") <=>
           /\ ~OnPlatform(<<"w", "i", "n", "d", "o", "w", "s">>)
           /\ ~Linux
           /\ ~OnPlatform(<<"s", "o", "l", "a", "r", "i", "s">>)
           /\ ~OnPlatform(<<"a", "i", "x">>)

\* C8 as stated: on linux every path but /dev/sg and device-mapper is translated
C8_AsStated ==
    Resolved =>
        /\ OtherPlatforms
        /\ Linux /\ Opened =>
             IF DeviceIs(<<"/", "d", "e", "v", "/", "s", "g">>)
             THEN /\ channel.func = "linux_sg"
                  /\ ~channel.translated
                  /\ channel.device = arguments.device
             ELSE IF DeviceIs(<<"/", "d", "e", "v", "/", "d", "m">>)
             THEN channel.func = "linux_dm"
             ELSE /\ channel.translated
                  /\ channel.func = "linux_sg"

(***************************************************************************)
(* C8, amended: windows, solaris and aix use their own transport for any   *)
(* path; on linux only a /dev/sd path is translated by the lookup; the     *)
(* path then in hand uses the generic transport when it starts with        *)
(* /dev/sg and the device-mapper transport in every other case; any other  *)
(* platform fails with NotImplementedError and nothing is opened.          *)
(***************************************************************************)
C8_Dispatch ==
    Resolved =>
        /\ OtherPlatforms
        /\ ~Linux => ~channel.translated
        /\ Linux /\ Opened =>
             /\ channel.translated <=> DeviceIs(<<"/", "d", "e", "v", "/", "s", "d">>)
             /\ ~channel.translated => channel.device = arguments.device
             /\ channel.translated => channel.device = get_sg_from_sd(arguments.device)
             /\ channel.func \in {"linux_sg", "linux_dm"}
             /\ channel.func = "linux_sg" <=>
                    (/\ Len(channel.device) >= 7
                     /\ SubSeq(channel.device, 1, 7) = <<"/", "d", "e", "v", "/", "s", "g">>)

\* /dev/hda on linux: the device-mapper transport, without translation
C8_Witness ==
    /\ Resolved
    /\ Linux
    /\ arguments.device = dev_hd
    /\ channel.state = "open"
    /\ channel.func = "linux_dm"
    /\ ~channel.translated

(***************************************************************************)
(* C9: in every sync_wait call the echo, printed exactly when verbosity is *)
(* enabled, comes before the first channel call; the command is executed   *)
(* once, to its end; the result is printed after the last channel call and *)
(* only if not suppressed; a channel call that raises ends the execution,  *)
(* its error is the one the caller gets, and no result is printed.         *)
(***************************************************************************)
\* the m-th sync_wait call has not returned or raised yet
Running(m) == m = sw.n /\ pc \in {"sw_echo", "sw_exec", "sw_result"}

\* it was left by an error of a channel call
Aborted(m) == m = sw.n /\ exc \in CallOutcomes \ {"ok"}

\* it returned
Returned(m) == ~Running(m) /\ ~Aborted(m)

\* C9: echo, then the calls of one execution, then the result, in each sync_wait
C9_SyncWaitOrder ==
    \A m \in 1..sw.n :
        LET echoes  == Segment(m, "echo")
            calls   == Segment(m, "call")
            results == Segment(m, "result")
        IN  /\ (m = sw.n /\ pc = "sw_echo") => echoes = {} /\ calls = {}
            /\ ~(m = sw.n /\ pc = "sw_echo") =>
                   Cardinality(echoes) = IF arguments.verbose THEN 1 ELSE 0
            /\ \A e \in echoes : \A c \in calls \cup results : e < c
            /\ \A c \in calls : \A r \in results : c < r
            /\ Cardinality(results) <= 1
            /\ \A k \in 1..Len(trace) :
                   trace[k].n = m => trace[k].ev \in {"echo", "call", "result"}
            \* every call but a last failed one succeeded
            /\ \A c \in calls : trace[c].fmt # "ok" =>
                   /\ Aborted(m)
                   /\ \A k \in 1..Len(trace) : trace[k].n = m => k <= c
                   /\ trace[c].fmt = exc
            /\ m = sw.n => Cardinality(calls) <= command.nsub
            /\ Aborted(m) => /\ results = {}
                             /\ \E c \in calls : trace[c].fmt = exc
            /\ Returned(m) =>
                   /\ calls # {}
                   /\ \A c \in calls : trace[c].fmt = "ok"
                   /\ m = sw.n => Cardinality(calls) = command.nsub
                   /\ Cardinality(results) = IF arguments.family = "raw" THEN 0 ELSE 1

\* a verbose inq: the echo, two channel calls, the result
C9_Witness ==
    /\ Finished
    /\ arguments.family = "inq"
    /\ arguments.verbose
    /\ Cardinality(Segment(1, "echo")) = 1
    /\ Cardinality(Segment(1, "call")) = 2
    /\ Cardinality(Segment(1, "result")) = 1

(***************************************************************************)
(* C10: an invocation of main that ends with a FormatError (ValueError)    *)
(* has opened no channel and has issued no channel call.                   *)
(***************************************************************************)
C10_FormatErrorBeforeOpen ==
    (Finished /\ exc = "ValueError") => Count("open") = 0 /\ Count("call") = 0

====
